---- MODULE Spec2Model ----
(***************************************************************************)
(* Click-analytics aggregate of the URL shortener.                         *)
(*                                                                         *)
(* One Link document (schema of src/unnamed/part_001) lives in the store.  *)
(* Every request handler works on its own copy of the document: it loads   *)
(* the document, mutates the copy synchronously, and later saves it.  A    *)
(* save sends only the paths the copy modified ($set for scalars and for   *)
(* reassigned arrays, $push for appended array elements, positional $set   *)
(* for fields of an existing array element), runs the pre('save') hook,    *)
(* and carries the document version as a precondition when it writes to a  *)
(* position of an array or replaces an array.                              *)
(*                                                                         *)
(* A handler's load and the synchronous code that follows it are one step: *)
(* nothing else reads the private copy before the save is fired.  Every    *)
(* click handler is taken to resolve the same stored document.             *)
(*                                                                         *)
(* Time is an integer clock; a calendar day is TicksPerDay ticks.          *)
(*                                                                         *)
(* Beside the click handlers the module describes the create routes over   *)
(* the codes of the links collection, the redirect and click requests with *)
(* the responses they send, and the reports (getAnalyticsSummary and the   *)
(* two stats summaries) as functions of the links they are computed over.  *)
(* Further parts: the enrichment of a click event under the link's         *)
(* settings, the dashboard routes over the links of several users, the     *)
(* route table of routes/urls.js, the login-attempt methods of the User    *)
(* document, connectDB of the server file, and the owner's DELETE racing   *)
(* with saves in flight.                                                   *)
(* Each part has its own specification and leaves the others' state alone. *)
(***************************************************************************)
EXTENDS Integers, Sequences, FiniteSets, TLC

\* ---------------------------------------------------------------- bounds
NumProcs    == 2     \* request handlers that may be in flight together
NumIps      == 2     \* distinct client addresses
MaxTime     == 4     \* last clock tick explored
MaxAttempts == 7     \* failed login attempts counted in one behaviour
MaxLoginTime == 8    \* last clock tick explored between login attempts
ConnectTicks == 2    \* longest time mongoose.connect takes to settle
RetryTicks  == 1     \* clock ticks that stand for the retryInterval of 5000 ms
MaxClicks   == 3     \* click events built in one behaviour
PolicyClicks == 2    \* click events built in one behaviour with owner updates
MaxUpdates  == 1     \* owner updates (PUT) in one behaviour
MaxExpiry   == 1     \* latest expiresAt a link is created with
TicksPerDay == 2     \* clock ticks per calendar day
AnalyticsCap == 2    \* stands for the 1000 of recordClick's slice(-1000)
DailyCap    == 2     \* stands for the 30 of recordClick's slice(-30)
NumCodes    == 2     \* distinct codes (aliases and generated short codes)
MaxUrls     == 2     \* links in the collection when a create request may start
GatewayClicks == 2   \* click events built in one behaviour with responses tracked
MaxErrors   == 1     \* failed saves after which the store rejects no further save
MaxOwned    == 2     \* links of the user a report is computed over
MaxCount    == 2     \* largest clicks counter of such a link
MaxDays     == 2     \* widest window (in days) a summary is asked for
MaxStatLinks == 3    \* links of the user a stats summary is computed over
MaxEvents   == 1     \* stored click events of such a link
TopCap      == 2     \* stands for the 5 of the stats summary's slice(0, 5)
MaxStats    == 2     \* DailyStat entries of the link a summary is computed for
LeaderCap   == 2     \* stands for the 10 of getTopFromMaps' limit
MaxTracked  == 3     \* clicks recorded on the link whose settings are followed
NumUsers    == 2     \* authenticated users of the dashboard
MaxLinks    == 2     \* links ever created through the dashboard

Procs == 1..NumProcs
Ips   == 1..NumIps
Times == 0..MaxTime

NoExpiry == -1       \* expiresAt unset

Codes == 1..NumCodes
NoAlias == 0         \* customAlias absent from the request body

Statuses == {"active", "inactive", "expired", "blocked"}

VARIABLES
  db,       \* the persisted Link document
  now,      \* the clock
  pc,       \* pc[p]: "idle" or "saving" (a save of p's copy is in flight)
  op,       \* op[p]: the handler p is running
  local,    \* local[p]: p's copy of the document
  pend,     \* pend[p]: the modified paths of p's copy (the delta of its save)
  hist,     \* click saves that succeeded, in the order they were persisted
  nFailed,  \* saves that failed
  built,    \* click events built so far (the next event's identity)
  updates,  \* owner updates started
  urls,     \* the links collection as the create routes see it: the codes of
            \* every stored link, in insertion order
  creq,     \* creq[p]: p's create request: its position, its alias, the route
            \* and the document while the insert is awaited, the response
  greq,     \* greq[p]: the code of p's redirect or click request and the
            \* response sent for it ("none": not answered yet)
  owned,    \* the links of the user whose reports are computed
  ret,      \* the report computed last
  tracked,  \* the link whose events are enriched: whether it was created, its
            \* settings, its event log and its dailyStats
  links,    \* the links of the dashboard by _id: owner, alias and expiresAt
  dresp,    \* the dashboard request answered last and its response
  routed,   \* the request the urls router dispatched last, and to which route
  acct,     \* the login-attempt fields of one User document, and the failed
            \* attempts counted since they were last cleared
  conn      \* connectDB: where it stands, its retries, the connection attempts
            \* and waits it has started, and when the current one started

\* The state of the click-analytics aggregate, and what the handlers of each
\* part of the program leave alone.
clickVars == <<db, now, pc, op, local, pend, hist, nFailed, built, updates>>
dashVars == <<links, dresp>>
nonClickVars == <<urls, creq, greq, owned, ret, tracked, dashVars, routed, acct, conn>>
nonCreateVars == <<clickVars, greq, owned, ret, tracked, dashVars, routed, acct, conn>>
nonGatewayVars == <<urls, creq, owned, ret, tracked, dashVars, routed, acct, conn>>
nonReportVars == <<clickVars, urls, creq, greq, tracked, dashVars, routed, acct, conn>>
nonTrackVars == <<clickVars, urls, creq, greq, owned, ret, dashVars, routed, acct, conn>>
nonDashVars == <<clickVars, urls, creq, greq, owned, ret, tracked, routed, acct, conn>>
nonRouteVars == <<clickVars, urls, creq, greq, owned, ret, tracked, dashVars, acct, conn>>
nonAccountVars == <<clickVars, urls, creq, greq, owned, ret, tracked, dashVars, routed, conn>>
nonConnVars == <<clickVars, urls, creq, greq, owned, ret, tracked, dashVars, routed, acct>>

vars == <<db, now, pc, op, local, pend, hist, nFailed, built, updates,
          urls, creq, greq, owned, ret, tracked, links, dresp, routed, acct, conn>>

\* ------------------------------------------------------------ pure helpers

\* today.setHours(0, 0, 0, 0)
Midnight(t) == t - (t % TicksPerDay)

\* Array.prototype.slice(-n)
LastN(s, n) == IF Len(s) > n THEN SubSeq(s, Len(s) - n + 1, Len(s)) ELSE s

\* Array.prototype.slice(0, n)
FirstN(s, n) == IF Len(s) > n THEN SubSeq(s, 1, n) ELSE s

\* A findIndex whose predicate ignores the address: any visitor matches.
VisitorIndexAny(vs, ip) == IF Len(vs) > 0 THEN 1 ELSE 0

\* A findIndex whose predicate never matches: every visitor is new.
VisitorIndexNever(vs, ip) == 0

\* this.uniqueVisitors.findIndex(v => v.ipAddress === data.ipAddress); 0 for -1
VisitorIndex(vs, ip) ==
  IF \E i \in 1..Len(vs) : vs[i].ipAddress = ip
  THEN CHOOSE i \in 1..Len(vs) :
         /\ vs[i].ipAddress = ip
         /\ \A k \in 1..(i - 1) : vs[k].ipAddress # ip
  ELSE 0

\* this.dailyStats.find(stat => stat.date.getTime() === today.getTime()); 0 if none
DailyIndex(ds, day) ==
  IF \E j \in 1..Len(ds) : ds[j].date = day
  THEN CHOOSE j \in 1..Len(ds) :
         /\ ds[j].date = day
         /\ \A k \in 1..(j - 1) : ds[k].date # day
  ELSE 0

\* The delta of a copy nothing has modified.
NoPend ==
  [scalars |-> {},
   pushA |-> <<>>, setA |-> FALSE,
   pushD |-> <<>>, setD |-> FALSE, posD |-> 0,
   pushV |-> <<>>, posV |-> 0]

\* A Link as `new Url({...})` builds it, with its schema defaults.
NewLink(expiresAt) ==
  [status |-> "active", expiresAt |-> expiresAt, isExpired |-> FALSE,
   clicks |-> 0, uniqueClicks |-> 0,
   analytics |-> <<>>, dailyStats |-> <<>>, uniqueVisitors |-> <<>>,
   v |-> 0]

\* ------------------------------------------------------- urlSchema methods

\* The event recordClick appends: the handler's analyticsData.  seq identifies
\* the event (its timestamp: new Date() of the request that built it).
Event(seq, ip, src) == [seq |-> seq, ipAddress |-> ip, src |-> src]

\* The entry `this.dailyStats.push(dailyStat)` stores for a day with no entry.
\* push casts the plain object into a new subdocument, so the increments that
\* recordClick applies afterwards to its own `dailyStat` object (clicks,
\* uniqueVisitors) are not applied to the stored entry.
NewDailyStat(day) == [date |-> day, clicks |-> 0, uniqueVisitors |-> 0]

\* urlSchema.methods.recordClick, up to (not including) this.save():
\* the copy after the call and the paths it modified.
RecordClick(doc, ip, seq, t) ==
  LET vi    == VisitorIndex(doc.uniqueVisitors, ip)
      today == Midnight(t)
      di    == DailyIndex(doc.dailyStats, today)
      vs    == IF vi = 0
               THEN Append(doc.uniqueVisitors, [ipAddress |-> ip, totalVisits |-> 1])
               ELSE [doc.uniqueVisitors EXCEPT ![vi].totalVisits = @ + 1]
      ds    == IF di = 0
               THEN Append(doc.dailyStats, NewDailyStat(today))
               ELSE [doc.dailyStats EXCEPT
                       ![di].clicks = @ + 1,
                       ![di].uniqueVisitors = IF vi = 0 THEN @ + 1 ELSE @]
      an    == Append(doc.analytics, Event(seq, ip, "recordClick"))
      cutA  == Len(an) > AnalyticsCap
      cutD  == Len(ds) > DailyCap
  IN [doc |-> [doc EXCEPT
                 !.clicks = @ + 1,
                 !.uniqueClicks = IF vi = 0 THEN @ + 1 ELSE @,
                 !.uniqueVisitors = vs,
                 !.dailyStats = IF cutD THEN LastN(ds, DailyCap) ELSE ds,
                 !.analytics = IF cutA THEN LastN(an, AnalyticsCap) ELSE an],
      pend |-> [scalars |-> IF vi = 0 THEN {"clicks", "uniqueClicks"} ELSE {"clicks"},
                pushA |-> IF cutA THEN <<>> ELSE <<Event(seq, ip, "recordClick")>>,
                setA  |-> cutA,
                pushD |-> IF di = 0 /\ ~cutD THEN <<NewDailyStat(today)>> ELSE <<>>,
                setD  |-> cutD,
                posD  |-> di,
                pushV |-> IF vi = 0
                          THEN <<[ipAddress |-> ip, totalVisits |-> 1]>> ELSE <<>>,
                posV  |-> vi]]

\* urlSchema.methods.checkExpiration: its return value ...
IsPastExpiry(doc, t) == doc.expiresAt # NoExpiry /\ t > doc.expiresAt

\* A checkExpiration that raises the flag but leaves status alone.
CheckExpirationFlagOnly(doc, t) ==
  IF IsPastExpiry(doc, t) /\ ~doc.isExpired
  THEN [doc EXCEPT !.isExpired = TRUE]
  ELSE doc

\* ... and its effect on the copy (the save it fires is the caller's next step).
CheckExpiration(doc, t) ==
  IF IsPastExpiry(doc, t) /\ ~doc.isExpired
  THEN [doc EXCEPT !.isExpired = TRUE, !.status = "expired"]
  ELSE doc

\* The scalar paths on which two copies differ (what a save marks modified).
Changed(old, new) ==
  {f \in {"status", "expiresAt", "isExpired", "clicks", "uniqueClicks"} :
     old[f] # new[f]}

\* urlSchema.pre('save'): isExpired follows the clock when expiresAt is set.
PreSave(doc, t) ==
  IF doc.expiresAt # NoExpiry
  THEN IF t > doc.expiresAt
       THEN [doc EXCEPT !.isExpired = TRUE, !.status = "expired"]
       ELSE [doc EXCEPT !.isExpired = FALSE]
  ELSE doc

\* The expiresAt validator, run by save on a modified expiresAt.
ExpiresAtValid(doc, t) == doc.expiresAt = NoExpiry \/ doc.expiresAt > t

\* A save carries the loaded version as a precondition when it writes to a
\* position of an array or replaces an array.
NeedsVersion(d) == d.posD > 0 \/ d.posV > 0 \/ d.setA \/ d.setD

\* A save increments the version when it changes the shape of an array.
BumpsVersion(d) ==
  d.setA \/ d.setD \/ Len(d.pushA) > 0 \/ Len(d.pushD) > 0 \/ Len(d.pushV) > 0

\* The store after the update of a save: cur is the stored document, doc the
\* saved copy (after the pre-save hook), d its modified paths.
ApplyDelta(cur, doc, d) ==
  [status       |-> IF "status" \in d.scalars THEN doc.status ELSE cur.status,
   expiresAt    |-> IF "expiresAt" \in d.scalars THEN doc.expiresAt ELSE cur.expiresAt,
   isExpired    |-> IF "isExpired" \in d.scalars THEN doc.isExpired ELSE cur.isExpired,
   clicks       |-> IF "clicks" \in d.scalars THEN doc.clicks ELSE cur.clicks,
   uniqueClicks |-> IF "uniqueClicks" \in d.scalars
                    THEN doc.uniqueClicks ELSE cur.uniqueClicks,
   analytics    |-> IF d.setA THEN doc.analytics ELSE cur.analytics \o d.pushA,
   dailyStats   |-> IF d.setD THEN doc.dailyStats
                    ELSE IF d.posD > 0
                    THEN [cur.dailyStats EXCEPT ![d.posD] = doc.dailyStats[d.posD]]
                    ELSE cur.dailyStats \o d.pushD,
   uniqueVisitors |-> IF d.posV > 0
                    THEN [cur.uniqueVisitors EXCEPT ![d.posV] = doc.uniqueVisitors[d.posV]]
                    ELSE cur.uniqueVisitors \o d.pushV,
   v            |-> IF BumpsVersion(d) THEN cur.v + 1 ELSE cur.v]

\* ------------------------------------------------------------ the handlers

ClickOps == {"recordClick", "topRedirect", "clickEndpoint"}

NoOp == [name |-> "none", ip |-> 0, day |-> 0, seq |-> 0]

Blank == NewLink(NoExpiry)

AllIdle == \A p \in Procs : pc[p] = "idle"

\* No redirect or click request made yet.
NoReq == [code |-> 0, resp |-> "none"]

\* No create request made yet.
NoCreate ==
  [pc |-> "idle", route |-> "none", alias |-> NoAlias,
   doc |-> [shortCode |-> 0, customAlias |-> NoAlias], resp |-> "none"]

\* No report computed yet.
NoReport == [op |-> "none", link |-> 0, days |-> 0]

\* The enriched link before it is created: the schema defaults of settings.
NoTracked ==
  [created |-> FALSE,
   settings |-> [trackLocation |-> TRUE, trackDeviceInfo |-> TRUE],
   analytics |-> <<>>, dailyStats |-> <<>>]

\* The dashboard: users, link ids, an id under which no link is stored, a
\* response that carries no link data, a request body without alias and
\* expiresAt, and no request answered yet.
Users   == 1..NumUsers
LinkIds == 1..MaxLinks
NoUser  == 0
NoLink  == [owner |-> NoUser, customAlias |-> <<>>, expiresAt |-> NoExpiry]
NoData  == NoLink
NoBody  == [customAlias |-> <<>>, expiresAt |-> NoExpiry]
NoDash  == [op |-> "none", user |-> NoUser, id |-> 0, body |-> NoBody,
            status |-> "none", data |-> NoData]

\* No request dispatched yet.
NoRouted == [method |-> "none", path |-> <<>>, authed |-> FALSE,
             route |-> 0, answer |-> "none"]

\* lockUntil unset.
NoLock == -1

LockThreshold == 5   \* the 5 of incrementLoginAttempts
LockTicks == 2       \* clock ticks that stand for the 30 minutes of a lock

\* A User document with the schema defaults of its login-attempt fields.
NewAccount ==
  [failedLoginAttempts |-> 0, accountLocked |-> FALSE, lockUntil |-> NoLock,
   failed |-> 0]

MaxRetries == 5      \* maxRetries of connectDB

\* connectDB() as the server starts: it has run up to its first await, the
\* first mongoose.connect is pending.
NewConn ==
  [at |-> "connecting", retries |-> 0, attempts |-> 1, waits |-> 0, since |-> 0]

\* The state after construction of everything but the stored link and the
\* reported links.
BaseInit ==
  /\ now = 0
  /\ pc = [p \in Procs |-> "idle"]
  /\ op = [p \in Procs |-> NoOp]
  /\ local = [p \in Procs |-> Blank]
  /\ pend = [p \in Procs |-> NoPend]
  /\ hist = <<>>
  /\ nFailed = 0
  /\ built = 0
  /\ updates = 0
  /\ urls = <<>>
  /\ creq = [p \in Procs |-> NoCreate]
  /\ greq = [p \in Procs |-> NoReq]
  /\ ret = NoReport
  /\ tracked = NoTracked
  /\ links = [i \in LinkIds |-> NoLink]
  /\ dresp = NoDash
  /\ routed = NoRouted
  /\ acct = NewAccount
  /\ conn = NewConn

Init ==
  /\ BaseInit
  /\ db \in {NewLink(e) : e \in {NoExpiry} \cup (1..MaxExpiry)}
  /\ owned = <<>>

\* Time passes.
Tick ==
  /\ now < MaxTime
  /\ now' = now + 1
  /\ UNCHANGED <<db, pc, op, local, pend, hist, nFailed, built, updates>>
  /\ UNCHANGED nonClickVars

\* router.get('/:shortCode') of routes/urls.js on a link past its expiresAt:
\* checkExpiration() returns true, the handler answers 410; the first such call
\* has marked the copy expired and fired a save of it.
GatewayExpired(p) ==
  /\ pc[p] = "idle"
  /\ IsPastExpiry(db, now)
  /\ LET doc == CheckExpiration(db, now)
     IN IF doc # db
        THEN /\ pc' = [pc EXCEPT ![p] = "saving"]
             /\ op' = [op EXCEPT ![p] = [NoOp EXCEPT !.name = "checkExpiration"]]
             /\ local' = [local EXCEPT ![p] = doc]
             /\ pend' = [pend EXCEPT ![p] = [NoPend EXCEPT !.scalars = Changed(db, doc)]]
        ELSE UNCHANGED <<pc, op, local, pend>>
  /\ UNCHANGED <<db, now, hist, nFailed, built, updates>>
  /\ UNCHANGED nonClickVars

\* router.get('/:shortCode') of routes/urls.js otherwise: recordClick mutates
\* the copy and fires its save, and the redirect is sent without waiting for it.
GatewayRedirect(p, ip) ==
  /\ pc[p] = "idle"
  /\ built < MaxClicks
  /\ ~IsPastExpiry(db, now)
  /\ LET rc == RecordClick(db, ip, built + 1, now)
     IN /\ local' = [local EXCEPT ![p] = rc.doc]
        /\ pend' = [pend EXCEPT ![p] = rc.pend]
  /\ pc' = [pc EXCEPT ![p] = "saving"]
  /\ op' = [op EXCEPT ![p] = [name |-> "recordClick", ip |-> ip,
                              day |-> Midnight(now), seq |-> built + 1]]
  /\ built' = built + 1
  /\ UNCHANGED <<db, now, hist, nFailed, updates>>
  /\ UNCHANGED nonClickVars

\* The copy and delta of a handler that counts a click itself:
\* url.clicks += 1; url.analytics.push({...}).
BareClick(doc, ip, seq, src) ==
  [doc |-> [doc EXCEPT !.clicks = @ + 1,
                       !.analytics = Append(@, Event(seq, ip, src))],
   pend |-> [NoPend EXCEPT !.scalars = {"clicks"},
                           !.pushA = <<Event(seq, ip, src)>>]]

\* app.get('/:shortCode') of the server file: counts the click on its copy and
\* awaits the save; the redirect follows the save.
TopRedirect(p, ip) ==
  /\ pc[p] = "idle"
  /\ built < MaxClicks
  /\ LET bc == BareClick(db, ip, built + 1, "topRedirect")
     IN /\ local' = [local EXCEPT ![p] = bc.doc]
        /\ pend' = [pend EXCEPT ![p] = bc.pend]
  /\ pc' = [pc EXCEPT ![p] = "saving"]
  /\ op' = [op EXCEPT ![p] = [name |-> "topRedirect", ip |-> ip,
                              day |-> Midnight(now), seq |-> built + 1]]
  /\ built' = built + 1
  /\ UNCHANGED <<db, now, hist, nFailed, updates>>
  /\ UNCHANGED nonClickVars

\* router.post('/:shortUrl/click') on a link past its expiresAt: 410.
ClickEndpointExpired(p) ==
  /\ pc[p] = "idle"
  /\ IsPastExpiry(db, now)
  /\ UNCHANGED vars

\* router.post('/:shortUrl/click') otherwise: counts the click on its copy and
\* awaits the save (the event it pushes carries no ipAddress: 0).
ClickEndpoint(p) ==
  /\ pc[p] = "idle"
  /\ built < MaxClicks
  /\ ~IsPastExpiry(db, now)
  /\ LET bc == BareClick(db, 0, built + 1, "clickEndpoint")
     IN /\ local' = [local EXCEPT ![p] = bc.doc]
        /\ pend' = [pend EXCEPT ![p] = bc.pend]
  /\ pc' = [pc EXCEPT ![p] = "saving"]
  /\ op' = [op EXCEPT ![p] = [name |-> "clickEndpoint", ip |-> 0,
                              day |-> Midnight(now), seq |-> built + 1]]
  /\ built' = built + 1
  /\ UNCHANGED <<db, now, hist, nFailed, updates>>
  /\ UNCHANGED nonClickVars

\* router.put('/:id'): the owner sets status and/or expiresAt ("none" and
\* NoExpiry: the field is absent from the request body) and awaits the save.
Update(p, status, expiresAt) ==
  /\ pc[p] = "idle"
  /\ updates < MaxUpdates
  /\ LET doc == [db EXCEPT
                   !.status = IF status # "none" THEN status ELSE @,
                   !.expiresAt = IF expiresAt # NoExpiry THEN expiresAt ELSE @]
     IN /\ local' = [local EXCEPT ![p] = doc]
        /\ pend' = [pend EXCEPT ![p] = [NoPend EXCEPT !.scalars = Changed(db, doc)]]
  /\ pc' = [pc EXCEPT ![p] = "saving"]
  /\ op' = [op EXCEPT ![p] = [NoOp EXCEPT !.name = "update"]]
  /\ updates' = updates + 1
  /\ UNCHANGED <<db, now, hist, nFailed, built>>
  /\ UNCHANGED nonClickVars

\* document.save() of p's copy: validation, the pre-save hook, then one update
\* of the stored document with the modified paths; a ValidationError or a
\* version mismatch leaves the store untouched.  Whether it succeeds, and the
\* stored document after it.
SaveResult(p) ==
  LET doc0  == local[p]
      doc   == PreSave(doc0, now)
      d     == [pend[p] EXCEPT !.scalars = @ \cup Changed(doc0, doc)]
      valid == ("expiresAt" \in pend[p].scalars) => ExpiresAtValid(doc0, now)
      ok    == valid /\ (NeedsVersion(d) => db.v = doc0.v)
  IN [ok |-> ok, db |-> IF ok THEN ApplyDelta(db, doc, d) ELSE db]

\* The save of p's copy completes.
Save(p) ==
  /\ pc[p] = "saving"
  /\ LET r == SaveResult(p)
     IN /\ db' = r.db
        /\ hist' = IF r.ok /\ op[p].name \in ClickOps THEN Append(hist, op[p]) ELSE hist
        /\ nFailed' = IF r.ok THEN nFailed ELSE nFailed + 1
  /\ pc' = [pc EXCEPT ![p] = "idle"]
  /\ op' = [op EXCEPT ![p] = NoOp]
  /\ local' = [local EXCEPT ![p] = Blank]
  /\ pend' = [pend EXCEPT ![p] = NoPend]
  /\ UNCHANGED <<now, built, updates>>
  /\ UNCHANGED nonClickVars

\* A click-recording request starts.
ClickBegin(p) ==
  \/ GatewayExpired(p)
  \/ \E ip \in Ips : GatewayRedirect(p, ip)
  \/ \E ip \in Ips : TopRedirect(p, ip)
  \/ ClickEndpointExpired(p)
  \/ ClickEndpoint(p)

\* Requests overlap freely.
Next ==
  \/ Tick
  \/ \E p \in Procs : ClickBegin(p)
  \/ \E p \in Procs : Save(p)

Spec == Init /\ [][Next]_vars

\* Requests do not overlap: one starts only when no save is in flight.
SeqNext ==
  \/ Tick
  \/ \E p \in Procs : AllIdle /\ ClickBegin(p)
  \/ \E p \in Procs : Save(p)

SeqSpec == Init /\ [][SeqNext]_vars

\* Overlapping requests with owner updates among them.
PolicyNext ==
  \/ Tick
  \/ \E p \in Procs : built < PolicyClicks /\ ClickBegin(p)
  \/ \E p \in Procs : \E s \in Statuses \cup {"none"}, e \in {NoExpiry} \cup Times :
        Update(p, s, e)
  \/ \E p \in Procs : Save(p)

PolicySpec == Init /\ [][PolicyNext]_vars

\* ------------------------------------------------------ the create routes

\* The two create routes: router.post('/') of routes/urls.js and the older
\* router.post('/') whose links carry their code in the one field shortUrl.
Routes == {"urls", "legacy"}

\* A unique index that rejects nothing.
DuplicateKeyNever(us, doc) == FALSE

\* The unique index on shortCode (shortUrl): an insert of a document whose
\* code is already stored fails with a duplicate-key error.
DuplicateKey(us, doc) == \E i \in 1..Len(us) : us[i].shortCode = doc.shortCode

\* The availability pre-check of a route:
\* Url.findOne({ $or: [{ shortCode: customAlias }, { customAlias }] }), or
\* Url.findOne({ shortUrl: customAlias }).
AliasFound(route, us, alias) ==
  \E i \in 1..Len(us) :
    \/ us[i].shortCode = alias
    \/ route = "urls" /\ us[i].customAlias = alias

\* new Url({ shortCode: customAlias || undefined, customAlias, ... }): gen is
\* what the schema default (shortid.generate, nanoid(8)) produces when no
\* alias is given.
NewUrl(route, alias, gen) ==
  [shortCode   |-> IF alias # NoAlias THEN alias ELSE gen,
   customAlias |-> IF route = "urls" THEN alias ELSE NoAlias]

\* A create request whose alias the pre-check finds taken: 400.
CreateTaken(p, route, alias) ==
  /\ creq[p].pc = "idle"
  /\ alias # NoAlias
  /\ AliasFound(route, urls, alias)
  /\ creq' = [creq EXCEPT ![p] = [NoCreate EXCEPT !.alias = alias,
                                                  !.resp = "aliasTaken"]]
  /\ UNCHANGED urls
  /\ UNCHANGED nonCreateVars

\* A create request that passes the pre-check (or carries no alias): the
\* document is built and its save is awaited.
CreateBegin(p, route, alias, gen) ==
  /\ creq[p].pc = "idle"
  /\ Len(urls) < MaxUrls
  /\ ~(alias # NoAlias /\ AliasFound(route, urls, alias))
  /\ creq' = [creq EXCEPT ![p] = [pc |-> "inserting", route |-> route,
                                  alias |-> alias,
                                  doc |-> NewUrl(route, alias, gen),
                                  resp |-> "none"]]
  /\ UNCHANGED urls
  /\ UNCHANGED nonCreateVars

\* await url.save() of a new document: the insert, then the response; a
\* duplicate-key error is caught by the route's catch-all, which answers 500.
CreateInsert(p) ==
  /\ creq[p].pc = "inserting"
  /\ IF DuplicateKey(urls, creq[p].doc)
     THEN /\ creq' = [creq EXCEPT ![p] = [NoCreate EXCEPT !.alias = creq[p].alias,
                                                          !.resp = "serverError"]]
          /\ UNCHANGED urls
     ELSE /\ creq' = [creq EXCEPT ![p] = [NoCreate EXCEPT !.alias = creq[p].alias,
                                                          !.resp = "created"]]
          /\ urls' = Append(urls, creq[p].doc)
  /\ UNCHANGED nonCreateVars

\* Create requests overlap freely.
CreateNext ==
  \/ \E p \in Procs, r \in Routes, a \in Codes : CreateTaken(p, r, a)
  \/ \E p \in Procs, r \in Routes, a \in Codes \cup {NoAlias}, g \in Codes :
        CreateBegin(p, r, a, g)
  \/ \E p \in Procs : CreateInsert(p)

\* The create routes do not look at the analytics of the stored links.
CreateInit ==
  /\ BaseInit
  /\ db = Blank
  /\ owned = <<>>

CreateSpec == CreateInit /\ [][CreateNext]_vars

\* ------------------------------------- redirect and click requests, answered

\* The code under which the stored link resolves.
LinkCode == 1

\* Handlers that answer only after their save has completed.
AwaitsSave == {"topRedirect", "clickEndpoint"}

\* p's handler starts the save of the copy r.doc with delta r.pend.
StartSave(p, name, ip, r) ==
  /\ local' = [local EXCEPT ![p] = r.doc]
  /\ pend' = [pend EXCEPT ![p] = r.pend]
  /\ pc' = [pc EXCEPT ![p] = "saving"]
  /\ op' = [op EXCEPT ![p] = [name |-> name, ip |-> ip,
                              day |-> Midnight(now), seq |-> built + 1]]
  /\ built' = built + 1

\* A request for a code that resolves to no link: findOne returns null, and
\* each of the three handlers answers 404 (the server file through next()
\* and its 404 handler).
RequestUnknown(p, code) ==
  /\ pc[p] = "idle"
  /\ code # LinkCode
  /\ greq' = [greq EXCEPT ![p] = [code |-> code, resp |-> "notFound"]]
  /\ UNCHANGED clickVars
  /\ UNCHANGED nonGatewayVars

\* router.get('/:shortCode') of routes/urls.js, link past its expiresAt:
\* checkExpiration() returns true and the handler answers 410.
GetExpired(p) ==
  /\ pc[p] = "idle"
  /\ IsPastExpiry(db, now)
  /\ LET doc == CheckExpiration(db, now)
     IN IF doc # db
        THEN /\ pc' = [pc EXCEPT ![p] = "saving"]
             /\ op' = [op EXCEPT ![p] = [NoOp EXCEPT !.name = "checkExpiration"]]
             /\ local' = [local EXCEPT ![p] = doc]
             /\ pend' = [pend EXCEPT ![p] = [NoPend EXCEPT !.scalars = Changed(db, doc)]]
        ELSE UNCHANGED <<pc, op, local, pend>>
  /\ greq' = [greq EXCEPT ![p] = [code |-> LinkCode, resp |-> "gone"]]
  /\ UNCHANGED <<db, now, hist, nFailed, built, updates>>
  /\ UNCHANGED nonGatewayVars

\* router.get('/:shortCode') of routes/urls.js otherwise: recordClick is
\* called, its promise is left to console.error, and the redirect (or the
\* delayed-redirect page) is sent at once.
GetRedirect(p, ip) ==
  /\ pc[p] = "idle"
  /\ built < GatewayClicks
  /\ ~IsPastExpiry(db, now)
  /\ StartSave(p, "recordClick", ip, RecordClick(db, ip, built + 1, now))
  /\ greq' = [greq EXCEPT ![p] = [code |-> LinkCode, resp |-> "redirect"]]
  /\ UNCHANGED <<db, now, hist, nFailed, updates>>
  /\ UNCHANGED nonGatewayVars

\* app.get('/:shortCode') of the server file: counts the click and awaits the
\* save; nothing is sent yet.
AppRedirect(p, ip) ==
  /\ pc[p] = "idle"
  /\ built < GatewayClicks
  /\ StartSave(p, "topRedirect", ip, BareClick(db, ip, built + 1, "topRedirect"))
  /\ greq' = [greq EXCEPT ![p] = [code |-> LinkCode, resp |-> "none"]]
  /\ UNCHANGED <<db, now, hist, nFailed, updates>>
  /\ UNCHANGED nonGatewayVars

\* router.post('/:shortUrl/click'), link past its expiresAt: 410.
PostClickExpired(p) ==
  /\ pc[p] = "idle"
  /\ IsPastExpiry(db, now)
  /\ greq' = [greq EXCEPT ![p] = [code |-> LinkCode, resp |-> "gone"]]
  /\ UNCHANGED clickVars
  /\ UNCHANGED nonGatewayVars

\* router.post('/:shortUrl/click') otherwise: counts the click and awaits the
\* save; nothing is sent yet.
PostClick(p) ==
  /\ pc[p] = "idle"
  /\ built < GatewayClicks
  /\ ~IsPastExpiry(db, now)
  /\ StartSave(p, "clickEndpoint", 0, BareClick(db, 0, built + 1, "clickEndpoint"))
  /\ greq' = [greq EXCEPT ![p] = [code |-> LinkCode, resp |-> "none"]]
  /\ UNCHANGED <<db, now, hist, nFailed, updates>>
  /\ UNCHANGED nonGatewayVars

\* What a handler that awaited its save sends when the save has succeeded
\* (res.redirect, res.json) or failed (the catch block: 500).
Answer(name, ok) ==
  IF ~ok THEN "error" ELSE IF name = "topRedirect" THEN "redirect" ELSE "ok"

\* p's request ends with its save having succeeded or failed (ok); a handler
\* that awaited the save answers now, the others have answered already.
Settle(p, ok, stored) ==
  /\ db' = stored
  /\ hist' = IF ok /\ op[p].name \in ClickOps THEN Append(hist, op[p]) ELSE hist
  /\ nFailed' = IF ok THEN nFailed ELSE nFailed + 1
  /\ greq' = IF op[p].name \in AwaitsSave
             THEN [greq EXCEPT ![p].resp = Answer(op[p].name, ok)]
             ELSE greq
  /\ pc' = [pc EXCEPT ![p] = "idle"]
  /\ op' = [op EXCEPT ![p] = NoOp]
  /\ local' = [local EXCEPT ![p] = Blank]
  /\ pend' = [pend EXCEPT ![p] = NoPend]
  /\ UNCHANGED <<now, built, updates>>
  /\ UNCHANGED nonGatewayVars

\* The save of p's copy reaches the store.
SaveDone(p) ==
  /\ pc[p] = "saving"
  /\ Settle(p, SaveResult(p).ok, SaveResult(p).db)

\* The save of p's copy is rejected with a persistence error (the store is
\* unreachable): nothing is written.
SaveError(p) ==
  /\ pc[p] = "saving"
  /\ nFailed < MaxErrors
  /\ Settle(p, FALSE, db)

\* Redirect and click requests overlap freely; a save may fail.
GatewayNext ==
  \/ Tick
  \/ \E p \in Procs, c \in Codes : RequestUnknown(p, c)
  \/ \E p \in Procs : GetExpired(p)
  \/ \E p \in Procs, ip \in Ips : GetRedirect(p, ip)
  \/ \E p \in Procs, ip \in Ips : AppRedirect(p, ip)
  \/ \E p \in Procs : PostClickExpired(p)
  \/ \E p \in Procs : PostClick(p)
  \/ \E p \in Procs : SaveDone(p)
  \/ \E p \in Procs : SaveError(p)

GatewaySpec == Init /\ [][GatewayNext]_vars

\* ---------------------------------------------------------- owner deletion

\* The stored link after the owner's DELETE: no document is left under its
\* _id or its code.
Gone == [Blank EXCEPT !.status = "deleted"]

\* A save that writes its delta whether or not the document is still stored.
SaveUpserts(p) == SaveResult(p)

\* document.save() of p's copy when the link may have been deleted: the
\* update is addressed to the document's _id without upsert, so that on a
\* deleted link it matches nothing, writes nothing and the save is rejected.
SaveOnStored(p) ==
  IF db = Gone THEN [ok |-> FALSE, db |-> Gone] ELSE SaveResult(p)

\* router.delete('/:id') by the owner: findOneAndDelete removes the document.
DeleteLink ==
  /\ db # Gone
  /\ db' = Gone
  /\ UNCHANGED <<now, pc, op, local, pend, hist, nFailed, built, updates>>
  /\ UNCHANGED nonClickVars

\* A redirect or click request for the code of the deleted link: findOne
\* returns null and each of the three handlers answers 404.
ResolveDeleted(p) ==
  /\ pc[p] = "idle"
  /\ db = Gone
  /\ greq' = [greq EXCEPT ![p] = [code |-> LinkCode, resp |-> "notFound"]]
  /\ UNCHANGED clickVars
  /\ UNCHANGED nonGatewayVars

\* The save of p's copy reaches the store, which may have lost the link.
SaveSettles(p) ==
  /\ pc[p] = "saving"
  /\ Settle(p, SaveOnStored(p).ok, SaveOnStored(p).db)

\* Redirect and click requests overlap freely with each other and with the
\* owner's DELETE.
DeleteNext ==
  \/ Tick
  \/ DeleteLink
  \/ \E p \in Procs : ResolveDeleted(p)
  \/ \E p \in Procs : db # Gone /\ GetExpired(p)
  \/ \E p \in Procs, ip \in Ips : db # Gone /\ GetRedirect(p, ip)
  \/ \E p \in Procs, ip \in Ips : db # Gone /\ AppRedirect(p, ip)
  \/ \E p \in Procs : db # Gone /\ PostClick(p)
  \/ \E p \in Procs : SaveSettles(p)

DeleteSpec == Init /\ [][DeleteNext]_vars

\* ------------------------------------------------------- event enrichment

\* What the request yields: the user agent's class and browser, and the
\* country the address resolves to.  "" stands for an absent (falsy) value.
Devices   == {"desktop", "mobile"}
Browsers  == {"Chrome"}
Countries == {"US"}

\* geoip.lookup(ip).country: the first address resolves, the others do not
\* (lookup returns null).
GeoCountry(ip) == IF ip = 1 THEN "US" ELSE ""

\* analyticsData as router.get('/:shortCode') of routes/urls.js builds it: the
\* address and the classification of the user agent (device, browser; os and
\* platform are set where browser is), no country.
AnalyticsData(ip, device, browser) ==
  [ipAddress |-> ip, country |-> "", device |-> device, browser |-> browser]

\* recordClick's geolocation step (city, region, timezone and location are
\* set where country is).
Enrich(data, settings) ==
  IF data.ipAddress # 0 /\ settings.trackLocation
  THEN IF GeoCountry(data.ipAddress) # ""
       THEN [data EXCEPT !.country = GeoCountry(data.ipAddress)]
       ELSE data
  ELSE data

\* A Map of counts is the sequence of its entries in insertion order.
\* new Map()
NewMap == <<>>

\* map.get(key) || 0
MapGet(map, key) ==
  IF \E i \in 1..Len(map) : map[i].name = key
  THEN map[CHOOSE i \in 1..Len(map) : map[i].name = key].count
  ELSE 0

\* map.set(key, value): a key the Map holds keeps its place.
MapSet(map, key, value) ==
  IF \E i \in 1..Len(map) : map[i].name = key
  THEN [i \in 1..Len(map) |->
          IF map[i].name = key THEN [name |-> key, count |-> value] ELSE map[i]]
  ELSE Append(map, [name |-> key, count |-> value])

\* map.set(key, (map.get(key) || 0) + 1), guarded by `if (key)`.
Bump(map, key) == IF key # "" THEN MapSet(map, key, MapGet(map, key) + 1) ELSE map

\* The entry pushed for a day with no entry; as with clicks, the increments
\* recordClick applies to its own object are not applied to the stored copy.
NewTrackedStat(day) ==
  [date |-> day, countries |-> NewMap, devices |-> NewMap, browsers |-> NewMap]

\* recordClick's "Update maps" step on the day's entry.
UpdateMaps(stat, data) ==
  [stat EXCEPT !.countries = Bump(@, data.country),
               !.devices   = Bump(@, data.device),
               !.browsers  = Bump(@, data.browser)]

\* recordClick(data0) on the link at time t, as far as the event and the maps
\* of the day go.
TrackClick(link, data0, t) ==
  LET data  == Enrich(data0, link.settings)
      today == Midnight(t)
      di    == DailyIndex(link.dailyStats, today)
  IN [link EXCEPT
        !.dailyStats = IF di = 0 THEN Append(@, NewTrackedStat(today))
                       ELSE [@ EXCEPT ![di] = UpdateMaps(@, data)],
        !.analytics = Append(@, data)]

\* router.post('/') with settings in the body: the link is created with them.
CreateWithSettings(trackLocation, trackDeviceInfo) ==
  /\ ~tracked.created
  /\ tracked' = [NoTracked EXCEPT
                   !.created = TRUE,
                   !.settings = [trackLocation |-> trackLocation,
                                 trackDeviceInfo |-> trackDeviceInfo]]
  /\ UNCHANGED nonTrackVars

\* router.get('/:shortCode') of routes/urls.js on the link: the event is
\* built from the request and recorded.
TrackedClick(ip, device, browser) ==
  /\ tracked.created
  /\ Len(tracked.analytics) < MaxTracked
  /\ tracked' = TrackClick(tracked, AnalyticsData(ip, device, browser), now)
  /\ UNCHANGED nonTrackVars

TrackInit ==
  /\ BaseInit
  /\ db = Blank
  /\ owned = <<>>

TrackNext ==
  \/ \E tl, td \in BOOLEAN : CreateWithSettings(tl, td)
  \/ \E ip \in Ips, d \in Devices, b \in Browsers : TrackedClick(ip, d, b)

TrackSpec == TrackInit /\ [][TrackNext]_vars

\* ---------------------------------------------------------- the dashboard

\* Url.findOne({ _id: id }): a lookup that does not filter by user.
FindById(ls, id, user) == ls[id]

\* Url.findOne({ _id: id, user: user }): the link, or NoLink for null.
FindOwned(ls, id, user) ==
  IF ls[id] # NoLink /\ ls[id].owner = user THEN ls[id] ELSE NoLink

\* /^[a-zA-Z0-9-_]+$/.test(v), v a non-empty sequence of characters ("a"
\* stands for the letters, "7" for the digits).
AliasPattern(v) == \A i \in 1..Len(v) : v[i] \in {"a", "7", "-", "_"}

\* The customAlias validator: !v || /^[a-zA-Z0-9-_]+$/.test(v)
CustomAliasValid(v) == v = <<>> \/ AliasPattern(v)

\* document.validate() as save runs it on the paths a handler has set.
Validates(doc, t) == CustomAliasValid(doc.customAlias) /\ ExpiresAtValid(doc, t)

\* The catch block of every dashboard route: whatever save threw
\* (ValidationError, a persistence error), the response is 500 'Server error'.
CatchAll(err) == "serverError"

\* The response of a dashboard request.
Respond(name, u, id, body, status, data) ==
  dresp' = [op |-> name, user |-> u, id |-> id, body |-> body,
            status |-> status, data |-> data]

\* req.body of a create or update request.
Body(alias, expiresAt) == [customAlias |-> alias, expiresAt |-> expiresAt]

\* router.get('/:id'): the link (with its summary), or 404.
Fetch(u, id) ==
  /\ LET url == FindOwned(links, id, u)
     IN IF url = NoLink
        THEN Respond("fetch", u, id, NoBody, "notFound", NoData)
        ELSE Respond("fetch", u, id, NoBody, "ok", url)
  /\ UNCHANGED links
  /\ UNCHANGED nonDashVars

\* router.get('/:id/analytics') of the older routes file, whose filter is
\* user: req.user._id.  The auth middleware sets req.user.id only; who is the
\* value the filter then carries: the user, or null (which matches no link).
LegacyAnalytics(u, id, who) ==
  /\ who \in {u, NoUser}
  /\ LET url == FindOwned(links, id, who)
     IN IF url = NoLink
        THEN Respond("analytics", u, id, NoBody, "notFound", NoData)
        ELSE Respond("analytics", u, id, NoBody, "ok", url)
  /\ UNCHANGED links
  /\ UNCHANGED nonDashVars

\* router.put('/:id') with expiresAt in the body (NoExpiry: absent): 404, or
\* the field is set and the copy saved; a save that fails validation leaves
\* the stored link alone and ends in the catch block.
DashUpdate(u, id, expiresAt) ==
  /\ LET url == FindOwned(links, id, u)
         doc == IF expiresAt # NoExpiry THEN [url EXCEPT !.expiresAt = expiresAt]
                ELSE url
     IN IF url = NoLink
        THEN /\ Respond("update", u, id, Body(<<>>, expiresAt), "notFound", NoData)
             /\ UNCHANGED links
        ELSE IF doc.expiresAt # url.expiresAt /\ ~ExpiresAtValid(doc, now)
        THEN /\ Respond("update", u, id, Body(<<>>, expiresAt), CatchAll("ValidationError"), NoData)
             /\ UNCHANGED links
        ELSE /\ Respond("update", u, id, Body(<<>>, expiresAt), "ok", doc)
             /\ links' = [links EXCEPT ![id] = doc]
  /\ UNCHANGED nonDashVars

\* router.delete('/:id'): Url.findOneAndDelete({ _id, user }).
DashDelete(u, id) ==
  /\ LET url == FindOwned(links, id, u)
     IN IF url = NoLink
        THEN /\ Respond("delete", u, id, NoBody, "notFound", NoData)
             /\ UNCHANGED links
        ELSE /\ Respond("delete", u, id, NoBody, "ok", NoData)
             /\ links' = [links EXCEPT ![id] = NoLink]
  /\ UNCHANGED nonDashVars

\* router.post('/:id/qr'): 404, or the QR code is generated again from the
\* shortCode (the value the pre-save hook stored at creation) and saved.
RegenerateQr(u, id) ==
  /\ LET url == FindOwned(links, id, u)
     IN IF url = NoLink
        THEN Respond("qr", u, id, NoBody, "notFound", NoData)
        ELSE Respond("qr", u, id, NoBody, "ok", NoData)
  /\ UNCHANGED links
  /\ UNCHANGED nonDashVars

\* The alias is the customAlias of a stored link (the pre-check of create).
AliasStored(ls, alias) == \E i \in LinkIds : ls[i] # NoLink /\ ls[i].customAlias = alias

\* router.post('/') by u: the pre-check, then new Url({...}) and its save
\* under a fresh _id; a save that fails validation stores nothing and ends in
\* the catch block.
DashCreate(u, id, alias, expiresAt) ==
  /\ links[id] = NoLink
  /\ LET url == [owner |-> u, customAlias |-> alias, expiresAt |-> expiresAt]
     IN IF alias # <<>> /\ AliasStored(links, alias)
        THEN /\ Respond("create", u, 0, Body(alias, expiresAt), "aliasTaken", NoData)
             /\ UNCHANGED links
        ELSE IF ~Validates(url, now)
        THEN /\ Respond("create", u, 0, Body(alias, expiresAt), CatchAll("ValidationError"), NoData)
             /\ UNCHANGED links
        ELSE /\ Respond("create", u, id, Body(alias, expiresAt), "ok", url)
             /\ links' = [links EXCEPT ![id] = url]
  /\ UNCHANGED nonDashVars

\* The aliases and expiry times a request may carry.
AliasInputs == {<<>>, <<"a", "_">>, <<"7", "-">>, <<"a", "!">>, <<" ">>}
ExpiryInputs == {NoExpiry, 0, 1}

DashInit ==
  /\ BaseInit
  /\ db = Blank
  /\ owned = <<>>

DashNext ==
  \/ \E u \in Users, i \in LinkIds : Fetch(u, i)
  \/ \E u \in Users, i \in LinkIds, who \in Users \cup {NoUser} : LegacyAnalytics(u, i, who)
  \/ \E u \in Users, i \in LinkIds, e \in ExpiryInputs : DashUpdate(u, i, e)
  \/ \E u \in Users, i \in LinkIds : DashDelete(u, i)
  \/ \E u \in Users, i \in LinkIds : RegenerateQr(u, i)
  \/ \E u \in Users, i \in LinkIds, a \in AliasInputs, e \in ExpiryInputs :
        DashCreate(u, i, a, e)

DashSpec == DashInit /\ [][DashNext]_vars

\* -------------------------------------------------------- the urls router

\* The routes of routes/urls.js in the order they are registered; auth: the
\* auth middleware stands before the handler.
UrlRoutes ==
  <<[method |-> "POST",   path |-> <<>>,                     auth |-> TRUE,
     handler |-> "create"],
    [method |-> "GET",    path |-> <<>>,                     auth |-> TRUE,
     handler |-> "list"],
    [method |-> "GET",    path |-> <<":id">>,                auth |-> TRUE,
     handler |-> "fetch"],
    [method |-> "PUT",    path |-> <<":id">>,                auth |-> TRUE,
     handler |-> "update"],
    [method |-> "DELETE", path |-> <<":id">>,                auth |-> TRUE,
     handler |-> "delete"],
    [method |-> "POST",   path |-> <<":id", "qr">>,          auth |-> TRUE,
     handler |-> "qr"],
    [method |-> "GET",    path |-> <<":shortCode">>,         auth |-> FALSE,
     handler |-> "redirect"],
    [method |-> "GET",    path |-> <<"stats", "summary">>,   auth |-> TRUE,
     handler |-> "statsSummary"]>>

\* A segment of a route path that is a parameter.
IsParam(seg) == seg \in {":id", ":shortCode"}

\* The route path matches the request path: segment by segment, a
\* parameter matching any one segment.
Matches(pattern, path) ==
  /\ Len(pattern) = Len(path)
  /\ \A i \in 1..Len(path) : IsParam(pattern[i]) \/ pattern[i] = path[i]

\* The router's dispatch: the first registered route of the method whose path
\* matches takes the request.  Its auth middleware answers 401 to a request
\* without a valid token; otherwise its handler answers (no handler of the
\* file passes the request on).  A request no route matches leaves the
\* router.
Dispatch(method, path, authed) ==
  LET hits == {i \in 1..Len(UrlRoutes) :
                 UrlRoutes[i].method = method /\ Matches(UrlRoutes[i].path, path)}
  IN IF hits = {} THEN [route |-> 0, answer |-> "notFound"]
     ELSE LET i == CHOOSE h \in hits : \A k \in hits : h <= k
          IN [route |-> i,
              answer |-> IF UrlRoutes[i].auth /\ ~authed THEN "unauthorized"
                         ELSE UrlRoutes[i].handler]

\* The requests put to the router: their methods and the segments of their
\* paths (a short code, an _id, and the literal segments of the routes).
Methods  == {"GET", "POST", "PUT", "DELETE"}
Segments == {"stats", "summary", "qr", "abc123", "64f0c1"}
Paths    == {<<>>} \cup {<<a>> : a \in Segments} \cup (Segments \X Segments)

\* A request reaches the router.
Request(method, path, authed) ==
  /\ routed' = [method |-> method, path |-> path, authed |-> authed,
                route |-> Dispatch(method, path, authed).route,
                answer |-> Dispatch(method, path, authed).answer]
  /\ UNCHANGED nonRouteVars

RouteInit ==
  /\ BaseInit
  /\ db = Blank
  /\ owned = <<>>

RouteNext ==
  \E m \in Methods, path \in Paths, authed \in BOOLEAN : Request(m, path, authed)

RouteSpec == RouteInit /\ [][RouteNext]_vars

\* ------------------------------------------------------ the account lock

\* userSchema.methods.isAccountLocked at time t.
IsAccountLocked(a, t) ==
  a.accountLocked /\ a.lockUntil # NoLock /\ a.lockUntil > t

\* The lock of the document has run out at time t.
LockExpired(a, t) == a.lockUntil # NoLock /\ a.lockUntil < t

\* userSchema.methods.incrementLoginAttempts, its save included.  failed
\* counts the calls since the attempts were last cleared: it starts again
\* with the call that finds the lock expired.
IncrementLoginAttempts ==
  /\ acct.failed < MaxAttempts
  /\ IF LockExpired(acct, now)
       THEN acct' = [failedLoginAttempts |-> 1, accountLocked |-> FALSE,
                     lockUntil |-> NoLock, failed |-> 1]
       ELSE IF acct.failedLoginAttempts + 1 >= LockThreshold
              THEN acct' = [failedLoginAttempts |-> acct.failedLoginAttempts + 1,
                            accountLocked |-> TRUE,
                            lockUntil |-> now + LockTicks,
                            failed |-> acct.failed + 1]
              ELSE acct' = [acct EXCEPT
                              !.failedLoginAttempts = acct.failedLoginAttempts + 1,
                              !.failed = acct.failed + 1]
  /\ UNCHANGED nonAccountVars

\* userSchema.methods.resetLoginAttempts, its save included.
ResetLoginAttempts ==
  /\ acct' = [failedLoginAttempts |-> 0, accountLocked |-> FALSE,
              lockUntil |-> NoLock, failed |-> 0]
  /\ UNCHANGED nonAccountVars

\* Date.now() moves on between two calls.
Elapse ==
  /\ now < MaxLoginTime
  /\ now' = now + 1
  /\ UNCHANGED <<db, pc, op, local, pend, hist, nFailed, built, updates>>
  /\ UNCHANGED nonClickVars

AccountInit ==
  /\ BaseInit
  /\ db = Blank
  /\ owned = <<>>

AccountNext == IncrementLoginAttempts \/ ResetLoginAttempts \/ Elapse

AccountSpec == AccountInit /\ [][AccountNext]_vars

\* --------------------------------------------------------------- connectDB

\* retries === maxRetries, after the increment in the catch block.
NeverOutOfRetries(retries) == FALSE
OutOfRetries(retries) == retries = MaxRetries

\* while (retries < maxRetries)
LoopTest(retries) == retries < MaxRetries

\* The pending mongoose.connect settles.  Resolved: break, connectDB returns
\* connected.  Rejected: the catch block counts the retry and either exits
\* the process or starts the timer of retryInterval.
ConnectSettles(ok) ==
  /\ conn.at = "connecting"
  /\ IF ok
       THEN conn' = [conn EXCEPT !.at = "connected"]
       ELSE IF OutOfRetries(conn.retries + 1)
              THEN conn' = [conn EXCEPT !.at = "exited",
                                        !.retries = conn.retries + 1]
              ELSE conn' = [conn EXCEPT !.at = "waiting",
                                        !.retries = conn.retries + 1,
                                        !.waits = conn.waits + 1,
                                        !.since = now]
  /\ UNCHANGED nonConnVars

\* The timer fires: the loop tests its condition and calls mongoose.connect
\* again, or is left.
RetryTimer ==
  /\ conn.at = "waiting"
  /\ now = conn.since + RetryTicks
  /\ IF LoopTest(conn.retries)
       THEN conn' = [conn EXCEPT !.at = "connecting",
                                 !.attempts = conn.attempts + 1,
                                 !.since = now]
       ELSE conn' = [conn EXCEPT !.at = "returned"]
  /\ UNCHANGED nonConnVars

\* Time passes while connectDB awaits: a connection attempt settles within
\* ConnectTicks, the timer fires after RetryTicks.
ConnAwait ==
  /\ \/ conn.at = "connecting" /\ now < conn.since + ConnectTicks
     \/ conn.at = "waiting" /\ now < conn.since + RetryTicks
  /\ now' = now + 1
  /\ UNCHANGED <<db, pc, op, local, pend, hist, nFailed, built, updates>>
  /\ UNCHANGED nonClickVars

ConnInit ==
  /\ BaseInit
  /\ db = Blank
  /\ owned = <<>>

ConnNext ==
  \/ \E ok \in BOOLEAN : ConnectSettles(ok)
  \/ RetryTimer
  \/ ConnAwait

\* Every pending promise of connectDB settles: the driver gives up an attempt
\* after its server selection timeout, and the timer fires.
ConnSpec == ConnInit /\ [][ConnNext]_vars /\ WF_vars(ConnNext)

\* ------------------------------------------------------------ the reports

\* lastMonth.setMonth(lastMonth.getMonth() - 1): a month, in clock ticks.
Month == 30 * TicksPerDay

\* A JavaScript number as a quotient num/den of integers; den = 0 is what a
\* division by zero yields: NaN for 0/0, Infinity otherwise.
Zero == [num |-> 0, den |-> 1]
Whole(n) == [num |-> n, den |-> 1]
Plus(a, b) == [num |-> a.num * b.den + b.num * a.den, den |-> a.den * b.den]
Over(a, n) == [num |-> a.num, den |-> a.den * n]
IsNaN(x) == x.den = 0 /\ x.num = 0
IsZero(x) == x.den # 0 /\ x.num = 0
Same(x, y) == x.den # 0 /\ y.den # 0 /\ x.num * y.den = y.num * x.den

\* Math.round(n / d) for d > 0.
RoundDiv(n, d) == (2 * n + d) \div (2 * d)

\* (n / d).toFixed(2) and Math.round((n / d) * 100) / 100: n/d to two decimals.
\* (toFixed returns the digits as a string; its value is modelled.)
TwoDecimals(n, d) == [num |-> RoundDiv(100 * n, d), den |-> 100]

\* The links a report may be computed over.
CreatedAts == {-(Month + 1), -Month, -1}
StatDates == {-((MaxDays + 1) * TicksPerDay), -TicksPerDay}
TimesOnPage == {[total |-> 0, count |-> 0], [total |-> 3, count |-> 2]}

\* A DailyStat entry whose four Maps all hold the entries of map.
DailyStat(date, clicks, timeOnPage, map) ==
  [date |-> date, clicks |-> clicks, timeOnPage |-> timeOnPage,
   countries |-> map, devices |-> map, browsers |-> map, referrers |-> map]

DailyStatsOf(clicks) ==
  IF clicks = 0 THEN {<<>>}
  ELSE {<<>>} \cup {<<DailyStat(d, 1, t, NewMap)>> :
                       d \in StatDates, t \in TimesOnPage}

ReportLinks ==
  UNION {{[createdAt |-> c, clicks |-> n, uniqueClicks |-> u, dailyStats |-> ds,
            analytics |-> <<>>] :
            c \in CreatedAts, ds \in DailyStatsOf(n)} :
         n \in 0..MaxCount, u \in 0..MaxCount}

OwnedInputs ==
  UNION {[1..k -> {l \in ReportLinks : l.uniqueClicks <= l.clicks}] : k \in 0..MaxOwned}

RECURSIVE SumClicks(_)
SumClicks(stats) ==
  IF stats = <<>> THEN 0 ELSE Head(stats).clicks + SumClicks(Tail(stats))

\* stat.timeOnPage.count ? stat.timeOnPage.total / stat.timeOnPage.count : 0
DayAverage(stat) ==
  IF stat.timeOnPage.count # 0
  THEN [num |-> stat.timeOnPage.total, den |-> stat.timeOnPage.count]
  ELSE Zero

RECURSIVE SumAverages(_)
SumAverages(stats) ==
  IF stats = <<>> THEN Zero ELSE Plus(DayAverage(Head(stats)), SumAverages(Tail(stats)))

\* A filter that keeps every entry.
EveryStat(link, days, t) == link.dailyStats

\* this.dailyStats.filter(stat => stat.date >= cutoffDate), the cutoff being
\* `days` days before t.
RecentStats(link, days, t) ==
  SelectSeq(link.dailyStats, LAMBDA stat : stat.date >= t - days * TicksPerDay)

\* stat[key].forEach((value, name) =>
\*   aggregated.set(name, (aggregated.get(name) || 0) + value)),
\* for the first k entries of the Map.
RECURSIVE AddCounts(_, _, _)
AddCounts(aggregated, map, k) ==
  IF k = 0 THEN aggregated
  ELSE LET agg == AddCounts(aggregated, map, k - 1)
       IN MapSet(agg, map[k].name, MapGet(agg, map[k].name) + map[k].count)

\* `aggregated` after stats.forEach(...) has visited the first n entries.
RECURSIVE Aggregated(_, _, _)
Aggregated(stats, key, n) ==
  IF n = 0 THEN NewMap
  ELSE AddCounts(Aggregated(stats, key, n - 1), stats[n][key], Len(stats[n][key]))

\* The first n entries in the order of .sort((a, b) => b[1] - a[1]):
\* descending by count, equal counts in their order in the Map.
RECURSIVE SortedByCount(_, _)
SortedByCount(entries, n) ==
  IF n = 0 THEN <<>>
  ELSE LET s == SortedByCount(entries, n - 1)
           k == Cardinality({j \in 1..Len(s) : s[j].count >= entries[n].count})
       IN SubSeq(s, 1, k) \o <<entries[n]>> \o SubSeq(s, k + 1, Len(s))

\* The aggregated entries cut to the limit without the sort.
GetTopUnsorted(stats, key) ==
  FirstN(Aggregated(stats, key, Len(stats)), LeaderCap)

\* urlSchema.methods.getTopFromMaps(stats, key), limit LeaderCap.
GetTopFromMaps(stats, key) ==
  LET aggregated == Aggregated(stats, key, Len(stats))
  IN FirstN(SortedByCount(aggregated, Len(aggregated)), LeaderCap)

\* urlSchema.methods.getAnalyticsSummary(days), called at time t.
GetAnalyticsSummary(link, days, t) ==
  LET recentStats == RecentStats(link, days, t)
  IN [totalClicks  |-> link.clicks,
      uniqueClicks |-> link.uniqueClicks,
      recentClicks |-> SumClicks(recentStats),
      clicksByDay  |-> [i \in 1..Len(recentStats) |->
                          [date |-> recentStats[i].date,
                           clicks |-> recentStats[i].clicks,
                           averageTimeOnPage |-> DayAverage(recentStats[i])]],
      topCountries |-> GetTopFromMaps(recentStats, "countries"),
      topDevices   |-> GetTopFromMaps(recentStats, "devices"),
      topBrowsers  |-> GetTopFromMaps(recentStats, "browsers"),
      topReferrers |-> GetTopFromMaps(recentStats, "referrers"),
      averageTimeOnPage   |-> Over(SumAverages(recentStats), Len(recentStats)),
      averageClicksPerDay |-> IF Len(recentStats) # 0
                              THEN Over(Whole(SumClicks(recentStats)), Len(recentStats))
                              ELSE Zero,
      conversionRate |-> IF link.uniqueClicks # 0
                         THEN TwoDecimals(link.clicks, link.uniqueClicks)
                         ELSE Zero]

\* urls.filter(url => url.createdAt >= t).length
CreatedSince(ls, t) == Cardinality({i \in 1..Len(ls) : ls[i].createdAt >= t})

\* Url.countDocuments({ createdAt: { $lte: t } })
CreatedBy(ls, t) == Cardinality({i \in 1..Len(ls) : ls[i].createdAt <= t})

\* urlGrowth of router.get('/stats/summary') of routes/urls.js at time t: the
\* share of the links created within the last month.
UrlGrowth(ls, t) ==
  LET totalUrls     == Len(ls)
      urlsLastMonth == CreatedSince(ls, t - Month)
  IN IF totalUrls # 0 THEN TwoDecimals(urlsLastMonth * 100, totalUrls) ELSE Zero

\* urlsGrowth of the older router.get('/stats/summary') at time t.
UrlsGrowth(ls, t) ==
  LET totalUrls     == Len(ls)
      lastMonthUrls == CreatedBy(ls, t - Month)
  IN IF lastMonthUrls = 0 THEN TwoDecimals(100, 1)
     ELSE TwoDecimals((totalUrls - lastMonthUrls) * 100, lastMonthUrls)

\* urls.reduce((sum, url) => sum + url.clicks, 0)
TotalClicks(ls) == SumClicks(ls)

\* Url.aggregate([{ $match: { createdAt: { $lte: t } } },
\*                { $group: { _id: null, totalClicks: { $sum: '$clicks' } } }]):
\* one group when a link matches, no group otherwise.
LastMonthClicks(ls, t) ==
  LET matched == SelectSeq(ls, LAMBDA l : l.createdAt <= t)
  IN IF matched = <<>> THEN <<>> ELSE <<[totalClicks |-> SumClicks(matched)]>>

\* clicksGrowth of the older router.get('/stats/summary') at time t:
\* ((totalClicks - lastMonthClicks[0]?.totalClicks || 0)
\*    / (lastMonthClicks[0]?.totalClicks || 1)) * 100,
\* where `a - b || 0` is `(a - b) || 0`.
ClicksGrowth(ls, t) ==
  LET totalClicks     == TotalClicks(ls)
      lastMonthClicks == LastMonthClicks(ls, t - Month)
  IN IF Len(lastMonthClicks) = 0 THEN TwoDecimals(100, 1)
     ELSE LET diff == totalClicks - lastMonthClicks[1].totalClicks
              base == lastMonthClicks[1].totalClicks
          IN TwoDecimals((IF diff # 0 THEN diff ELSE 0) * 100,
                         IF base # 0 THEN base ELSE 1)

\* url.analytics.filter(a => new Date(a.timestamp) >= t).length
RecentEventCount(link, t) ==
  Cardinality({k \in 1..Len(link.analytics) : link.analytics[k].timestamp >= t})

\* clicksLastMonth of routes/urls.js: the stored events of the last month,
\* summed over the links.
RECURSIVE ClicksLastMonth(_, _)
ClicksLastMonth(ls, t) ==
  IF ls = <<>> THEN 0
  ELSE RecentEventCount(Head(ls), t) + ClicksLastMonth(Tail(ls), t)

\* clickGrowth of router.get('/stats/summary') of routes/urls.js at time t: the
\* share of the clicks whose event lies within the last month.
ClickGrowth(ls, t) ==
  LET totalClicks     == TotalClicks(ls)
      clicksLastMonth == ClicksLastMonth(ls, t - Month)
  IN IF totalClicks # 0 THEN TwoDecimals(clicksLastMonth * 100, totalClicks) ELSE Zero

\* The positions of the first n links in the order of
\* [...urls].sort((a, b) => b.clicks - a.clicks): descending by clicks, links
\* with equal clicks in their stored order (Array.prototype.sort is stable).
RECURSIVE ByClicks(_, _)
ByClicks(ls, n) ==
  IF n = 0 THEN <<>>
  ELSE LET s == ByClicks(ls, n - 1)
           k == Cardinality({j \in 1..Len(s) : ls[s[j]].clicks >= ls[n].clicks})
       IN SubSeq(s, 1, k) \o <<n>> \o SubSeq(s, k + 1, Len(s))

\* The first links in stored order, without the sort.
TopUnsorted(ls) ==
  LET top == FirstN([i \in 1..Len(ls) |-> i], TopCap)
  IN [i \in 1..Len(top) |->
        [link |-> top[i], clicks |-> ls[top[i]].clicks,
         uniqueClicks |-> ls[top[i]].uniqueClicks]]

\* topUrls of routes/urls.js; a link is identified by its position among the
\* user's links (its shortCode and originalUrl in the response).
TopUrls(ls) ==
  LET top == FirstN(ByClicks(ls, Len(ls)), TopCap)
  IN [i \in 1..Len(top) |->
        [link |-> top[i], clicks |-> ls[top[i]].clicks,
         uniqueClicks |-> ls[top[i]].uniqueClicks]]

\* A summary of the i-th link over `days` days is computed.
Summarize(i, days) ==
  /\ i \in 1..Len(owned)
  /\ ret' = [op |-> "summary", link |-> i, days |-> days,
             out |-> GetAnalyticsSummary(owned[i], days, now)]
  /\ UNCHANGED owned
  /\ UNCHANGED nonReportVars

\* GET /stats/summary of routes/urls.js.
StatsSummary ==
  /\ ret' = [op |-> "stats", link |-> 0, days |-> 0,
             out |-> [totalUrls   |-> Len(owned),
                      totalClicks |-> TotalClicks(owned),
                      urlGrowth   |-> UrlGrowth(owned, now),
                      clickGrowth |-> ClickGrowth(owned, now),
                      topUrls     |-> TopUrls(owned)]]
  /\ UNCHANGED owned
  /\ UNCHANGED nonReportVars

\* GET /stats/summary of the older routes file.
LegacyStatsSummary ==
  /\ ret' = [op |-> "legacyStats", link |-> 0, days |-> 0,
             out |-> [totalUrls   |-> Len(owned),
                      totalClicks |-> TotalClicks(owned),
                      urlGrowth   |-> UrlsGrowth(owned, now),
                      clickGrowth |-> ClicksGrowth(owned, now)]]
  /\ UNCHANGED owned
  /\ UNCHANGED nonReportVars

ReportInit ==
  /\ BaseInit
  /\ db = Blank
  /\ owned \in OwnedInputs

ReportNext ==
  \/ \E i \in 1..MaxOwned, days \in 1..MaxDays : Summarize(i, days)
  \/ StatsSummary
  \/ LegacyStatsSummary

ReportSpec == ReportInit /\ [][ReportNext]_vars

\* The links a summary may be computed for.  Their DailyStat entries are in
\* day order, as recordClick appends them; the days reach from the last one
\* inside every window to the first one outside every window.
SummaryDates == {-(k * TicksPerDay) : k \in 1..(MaxDays + 1)}

RECURSIVE Ascending(_)
Ascending(S) ==
  IF S = {} THEN <<>>
  ELSE LET m == CHOOSE x \in S : \A y \in S : x <= y
       IN <<m>> \o Ascending(S \ {m})

DaySets == {S \in SUBSET SummaryDates : Cardinality(S) <= MaxStats}

\* Entries that differ in their clicks, with empty Maps.
ClickStats ==
  UNION {{[i \in 1..Cardinality(S) |->
             DailyStat(Ascending(S)[i], f[Ascending(S)[i]], [total |-> 0, count |-> 0],
                       NewMap)] :
            f \in [S -> 1..MaxCount]} : S \in DaySets}

\* The Maps of a day: up to two labels, in either order, with their counts.
Labels == {"a", "b", "c"}
LabelCounts == {1, 2}
DayMaps ==
  {NewMap}
  \cup {<<[name |-> l, count |-> c]>> : l \in Labels, c \in LabelCounts}
  \cup {<<[name |-> p[1], count |-> c], [name |-> p[2], count |-> d]>> :
          p \in {q \in Labels \X Labels : q[1] # q[2]},
          c \in LabelCounts, d \in LabelCounts}

\* Entries that differ in their Maps: no day, one day, or two days in day
\* order.
LabelStats ==
  {<<>>}
  \cup {<<DailyStat(d, 1, [total |-> 0, count |-> 0], m)>> :
          d \in SummaryDates, m \in DayMaps}
  \cup {<<DailyStat(p[1], 1, [total |-> 0, count |-> 0], m),
          DailyStat(p[2], 1, [total |-> 0, count |-> 0], n)>> :
          p \in {q \in SummaryDates \X SummaryDates : q[1] < q[2]},
          m \in DayMaps, n \in DayMaps}

SummaryLinks ==
  {[createdAt |-> -(Month + 1), clicks |-> n, uniqueClicks |-> u, dailyStats |-> ds,
    analytics |-> <<>>] :
     n \in 0..MaxCount, u \in 0..1, ds \in ClickStats}
  \cup
  {[createdAt |-> -(Month + 1), clicks |-> MaxCount, uniqueClicks |-> 1,
    dailyStats |-> ds, analytics |-> <<>>] : ds \in LabelStats}

SummaryInit ==
  /\ BaseInit
  /\ db = Blank
  /\ owned \in {<<l>> : l \in SummaryLinks}

SummaryNext == \E days \in 1..MaxDays : Summarize(1, days)

SummarySpec == SummaryInit /\ [][SummaryNext]_vars

\* The links a stats summary may be computed over: their creation time, their
\* counter and their stored events (none older than the link).
EventTimes == {-(Month + 1), -1}

EventLogs(createdAt, clicks) ==
  UNION {[1..k -> {[timestamp |-> t] : t \in {e \in EventTimes : e >= createdAt}}] :
         k \in 0..(IF clicks < MaxEvents THEN clicks ELSE MaxEvents)}

StatsLinks ==
  UNION {{[createdAt |-> c, clicks |-> n, uniqueClicks |-> 0, dailyStats |-> <<>>,
           analytics |-> a] : a \in EventLogs(c, n)} :
         c \in EventTimes, n \in 0..MaxCount}

StatsInit ==
  /\ BaseInit
  /\ db = Blank
  /\ owned \in UNION {[1..k -> StatsLinks] : k \in 0..MaxStatLinks}

StatsNext ==
  \/ StatsSummary
  \/ LegacyStatsSummary

StatsSpec == StatsInit /\ [][StatsNext]_vars

\* ------------------------------------------------------------- the claims

RECURSIVE SumVisits(_)
SumVisits(vs) == IF vs = <<>> THEN 0 ELSE Head(vs).totalVisits + SumVisits(Tail(vs))

HistIps  == {hist[i].ip : i \in 1..Len(hist)}
HistDays == {hist[i].day : i \in 1..Len(hist)}

\* Every click event built so far came from recordClick and has been saved.
OnlyRecordClick ==
  /\ AllIdle
  /\ nFailed = 0
  /\ built = Len(hist)
  /\ \A i \in 1..Len(hist) : hist[i].name = "recordClick"

DistinctIps == \A i, j \in 1..Len(hist) : i # j => hist[i].ip # hist[j].ip

LedgerIps == {db.uniqueVisitors[i].ipAddress : i \in 1..Len(db.uniqueVisitors)}

\* C1: when K overlapping recordClick calls have all completed successfully,
\* the stored clicks counter is K, uniqueClicks is the number of distinct
\* addresses among them, and the ledger holds those addresses with K visits.
C1_NoLostIncrement ==
  OnlyRecordClick =>
    /\ db.clicks = Len(hist)
    /\ db.uniqueClicks = Cardinality(HistIps)
    /\ LedgerIps = HistIps
    /\ SumVisits(db.uniqueVisitors) = Len(hist)

\* C2: after N non-overlapping recordClick calls on a fresh link with pairwise
\* distinct addresses, clicks = N and uniqueClicks = N.
C2_DistinctIps ==
  (OnlyRecordClick /\ DistinctIps) =>
    (db.clicks = Len(hist) /\ db.uniqueClicks = Len(hist))

C2_Witness ==
  OnlyRecordClick /\ DistinctIps /\ Len(hist) = NumIps /\ db.uniqueClicks = NumIps

\* C3: after N >= 1 non-overlapping recordClick calls on a fresh link that all
\* carry the same address, clicks = N, uniqueClicks = 1 and the ledger is one
\* entry for that address with totalVisits = N.
C3_SameIp ==
  (OnlyRecordClick /\ Len(hist) >= 1 /\ Cardinality(HistIps) = 1) =>
    /\ db.clicks = Len(hist)
    /\ db.uniqueClicks = 1
    /\ Len(db.uniqueVisitors) = 1
    /\ db.uniqueVisitors[1].ipAddress = hist[1].ip
    /\ db.uniqueVisitors[1].totalVisits = Len(hist)

C3_Witness ==
  /\ OnlyRecordClick /\ Len(hist) = MaxClicks /\ Cardinality(HistIps) = 1
  /\ db.uniqueVisitors[1].totalVisits = MaxClicks

\* C4: after non-overlapping recordClick calls on a fresh link that all fall on
\* one calendar day, that day's DailyStat counts every call in clicks and
\* every distinct address in uniqueVisitors, the day's first click included.
C4_DailyCounts ==
  (OnlyRecordClick /\ Len(hist) >= 1 /\ Cardinality(HistDays) = 1) =>
    /\ Len(db.dailyStats) = 1
    /\ db.dailyStats[1].date = hist[1].day
    /\ db.dailyStats[1].clicks = Len(hist)
    /\ db.dailyStats[1].uniqueVisitors = Cardinality(HistIps)

\* The events of the last n saved clicks, oldest first.
RecentEvents(n) ==
  LET h == LastN(hist, n)
  IN [i \in 1..Len(h) |-> Event(h[i].seq, h[i].ip, h[i].name)]

\* C5: the stored event log never holds more than the cap, whichever handler
\* recorded the clicks, and once more events than the cap have been recorded
\* it is exactly the most recent ones in the order they were recorded.
C5_LogBounded ==
  /\ Len(db.analytics) <= AnalyticsCap
  /\ (AllIdle /\ Len(hist) > AnalyticsCap) => db.analytics = RecentEvents(AnalyticsCap)

\* The days on which a saved recordClick was made.
ClickDays == {hist[i].day : i \in {k \in 1..Len(hist) : hist[k].name = "recordClick"}}

\* C6: dailyStats never holds more than the cap, and it is the most recent
\* days on which clicks were recorded, in day order (the oldest day is the one
\* evicted).
C6_DailyBounded ==
  /\ Len(db.dailyStats) <= DailyCap
  /\ \A i, j \in 1..Len(db.dailyStats) :
       i < j => db.dailyStats[i].date <= db.dailyStats[j].date
  /\ AllIdle =>
       /\ \A i \in 1..Len(db.dailyStats) : db.dailyStats[i].date \in ClickDays
       /\ \A d \in ClickDays :
            (\E i \in 1..Len(db.dailyStats) : db.dailyStats[i].date = d)
            \/ Cardinality({e \in ClickDays : e > d}) >= DailyCap

\* C7: clicks >= uniqueClicks >= 0 in every stored state.
C7_ClicksGeUnique == db.clicks >= db.uniqueClicks /\ db.uniqueClicks >= 0

\* C8: no two entries of dailyStats carry the same date.
C8_OneEntryPerDay ==
  \A i, j \in 1..Len(db.dailyStats) :
    i # j => db.dailyStats[i].date # db.dailyStats[j].date

\* C9: no step lowers the stored clicks counter.
C9_ClicksMonotone == [][db'.clicks >= db.clicks]_vars

\* A handler redirects to originalUrl or builds a click event in this step.
RecordsClick(p) ==
  /\ pc[p] = "idle"
  /\ pc'[p] = "saving"
  /\ op'[p].name \in ClickOps

\* The link must not be redirected at time t: it is blocked or expired, or its
\* expiresAt has passed.
Unredirectable(doc, t) ==
  doc.status \in {"blocked", "expired"} \/ IsPastExpiry(doc, t)

\* C10: no handler records a click or issues a redirect for a link that is
\* blocked, expired, or past its expiresAt at that moment.
C10_OnlyRedirectable ==
  [][\A p \in Procs : RecordsClick(p) => ~Unredirectable(db, now)]_vars

\* The save fired by a checkExpiration call is persisted in this step.
ExpiryWrite(p) ==
  /\ pc[p] = "saving"
  /\ op[p].name = "checkExpiration"
  /\ pc'[p] = "idle"

\* checkExpiration's contract on the stored link at the current time.
CheckExpirationContract ==
  LET d1 == CheckExpiration(db, now)
  IN IF IsPastExpiry(db, now)
     THEN /\ d1.isExpired
          /\ d1.status = "expired"
          /\ \A t \in now..(MaxTime + 1) :
               IsPastExpiry(d1, t) /\ CheckExpiration(d1, t) = d1
     ELSE d1 = db

C12_ExpiredOneWay ==
  [][db.status = "expired" => db'.status = "expired"]_vars

\* C13: every step that changes the stored status from active to expired is
\* the write of a checkExpiration call; the save of a recordClick, or of any
\* other handler, leaves status as it was.
C13_SoleMechanism ==
  [][(db.status = "active" /\ db'.status = "expired") =>
       \E p \in Procs : ExpiryWrite(p)]_vars

\* The codes under which a link resolves.
CodesOf(u) == {u.shortCode} \cup (IF u.customAlias = NoAlias THEN {} ELSE {u.customAlias})

CreateAnswered(p) == creq'[p].pc = "idle" /\ creq'[p] # creq[p]

\* The alias is the shortCode or customAlias of a stored link.
AliasInUse(us, alias) ==
  \E i \in 1..Len(us) : alias \in CodesOf(us[i])

\* C15: a create request whose alias is in use when it is answered is answered
\* with the alias-taken conflict, whether the pre-check or the unique index
\* caught it, and the collection is unchanged.
C15_ConflictOutcome ==
  [][\A p \in Procs :
       (CreateAnswered(p) /\ creq'[p].alias # NoAlias
          /\ AliasInUse(urls, creq'[p].alias)) =>
         (creq'[p].resp = "aliasTaken" /\ urls' = urls)]_vars

\* Handlers that redirect the visitor to originalUrl.
RedirectOps == {"recordClick", "topRedirect"}

\* C16: for a link that may be redirected, the redirect is sent in the step
\* that starts the recording, before the save completes, and the response is
\* the redirect whether the save then succeeds or fails: a failed save is
\* never turned into an error response.
C16_RedirectNotDelayed ==
  [][\A p \in Procs :
       /\ (pc[p] = "idle" /\ pc'[p] = "saving" /\ op'[p].name \in RedirectOps
             /\ ~IsPastExpiry(db, now)) =>
            greq'[p].resp = "redirect"
       /\ (pc[p] = "saving" /\ pc'[p] = "idle" /\ op[p].name \in RedirectOps) =>
            greq'[p].resp = "redirect"]_vars

\* The click counters and analytics of a link.
Counters(d) == <<d.clicks, d.uniqueClicks, d.uniqueVisitors, d.analytics, d.dailyStats>>

\* C17: a request for a code that resolves to no link is answered 404 and
\* changes nothing; a request for the code of a link past its expiresAt is
\* answered 410 and builds no click event, and the write it may fire leaves
\* clicks, uniqueClicks, the visitor ledger, the event log and dailyStats as
\* they were.
C17_ResolveCheckRecord ==
  [][\A p \in Procs :
       /\ (pc[p] = "idle" /\ (greq'[p] # greq[p] \/ pc'[p] # "idle")) =>
            /\ greq'[p].code # LinkCode =>
                 (greq'[p].resp = "notFound" /\ UNCHANGED clickVars)
            /\ (greq'[p].code = LinkCode /\ IsPastExpiry(db, now)) =>
                 /\ greq'[p].resp = "gone"
                 /\ built' = built
                 /\ pc'[p] = "saving" => Counters(local'[p]) = Counters(db)
       /\ (pc[p] = "saving" /\ pc'[p] = "idle" /\ op[p].name = "checkExpiration") =>
            Counters(db') = Counters(db)]_vars

\* The link a computed summary is about.
Summarized == owned[ret.link]

\* C18: a summary of a link with no clicks, or of any link with no DailyStat
\* in the window, has conversionRate 0 and averageTimeOnPage 0 (a number, not
\* the outcome of a division by zero).
C18_ZeroClickSummary ==
  (ret.op = "summary"
     /\ (\/ (Summarized.clicks = 0 /\ Summarized.uniqueClicks = 0
               /\ Summarized.dailyStats = <<>>)
         \/ RecentStats(Summarized, ret.days, now) = <<>>)) =>
    (IsZero(ret.out.conversionRate) /\ IsZero(ret.out.averageTimeOnPage))

\* C19: for a link with clicks > 0 the summary's conversionRate is
\* uniqueClicks / clicks to two decimals: between 0 and 1, and 1 exactly when
\* every click came from a distinct visitor.
C19_ConversionRate ==
  (ret.op = "summary" /\ Summarized.clicks > 0) =>
    LET c == ret.out.conversionRate
    IN /\ Same(c, TwoDecimals(Summarized.uniqueClicks, Summarized.clicks))
       /\ 0 <= c.num /\ c.num <= c.den
       /\ (c.num = c.den) <=> (Summarized.uniqueClicks = Summarized.clicks)

\* The links that existed a month before t.
BaselineUrls(ls, t) == CreatedBy(ls, t - Month)

\* C20: each stats summary reports as URL growth
\* (totalUrls - baselineUrls) / baselineUrls * 100, baselineUrls being the
\* links that existed a month ago, and 100 when baselineUrls is 0.
C20_UrlGrowth ==
  (ret.op \in {"stats", "legacyStats"}) =>
    LET baselineUrls == BaselineUrls(owned, now)
    IN Same(ret.out.urlGrowth,
            IF baselineUrls = 0 THEN Whole(100)
            ELSE TwoDecimals((Len(owned) - baselineUrls) * 100, baselineUrls))

\* The clicks of the links that existed a month before t.
BaselineClicks(ls, t) ==
  SumClicks(SelectSeq(ls, LAMBDA l : l.createdAt <= t - Month))

\* C21: each stats summary reports as click growth
\* (totalClicks - baselineClicks) / baselineClicks * 100, baselineClicks being
\* the clicks of the links that existed a month ago, and 100 when
\* baselineClicks is 0, whether or not a link existed a month ago.
C21_ClickGrowth ==
  (ret.op \in {"stats", "legacyStats"}) =>
    LET baselineClicks == BaselineClicks(owned, now)
    IN Same(ret.out.clickGrowth,
            IF baselineClicks = 0 THEN Whole(100)
            ELSE TwoDecimals((TotalClicks(owned) - baselineClicks) * 100,
                             baselineClicks))

\* The maps of the link's entry for the day of t (no counts when the day has
\* no entry).
DayCounts(link, t) ==
  LET di == DailyIndex(link.dailyStats, Midnight(t))
  IN IF di = 0 THEN NewTrackedStat(Midnight(t)) ELSE link.dailyStats[di]

\* The event a click step has just recorded.
Recorded == tracked'.analytics[Len(tracked'.analytics)]

\* C22: a click recorded on a link whose settings.trackLocation is false
\* stores an event without country and leaves the day's country counts as
\* they were; on a link whose settings.trackDeviceInfo is false it stores an
\* event without device and browser classification and leaves the day's
\* device and browser counts as they were.
C22_SettingsObeyed ==
  [][(tracked.created /\ tracked'.analytics # tracked.analytics) =>
       /\ ~tracked.settings.trackLocation =>
            /\ Recorded.country = ""
            /\ DayCounts(tracked', now).countries = DayCounts(tracked, now).countries
       /\ ~tracked.settings.trackDeviceInfo =>
            /\ Recorded.device = "" /\ Recorded.browser = ""
            /\ DayCounts(tracked', now).devices = DayCounts(tracked, now).devices
            /\ DayCounts(tracked', now).browsers = DayCounts(tracked, now).browsers]_vars

\* Requests on one link by its _id.
LinkOps == {"fetch", "analytics", "update", "delete", "qr"}

\* C23: a fetch, update, delete, QR regeneration or analytics request on a
\* link by a user who is not its owner is answered 404, carries no link data
\* and leaves every link as it was.
C23_OwnerOnly ==
  [][(dresp' # dresp /\ dresp'.op \in LinkOps
        /\ links[dresp'.id] # NoLink
        /\ links[dresp'.id].owner # dresp'.user) =>
       (dresp'.status = "notFound" /\ dresp'.data = NoData /\ links' = links)]_vars

\* A request on a stored link by a user who is not its owner has been
\* answered 404.
C23_Witness ==
  /\ dresp.op \in LinkOps
  /\ dresp.status = "notFound"
  /\ links[dresp.id] # NoLink
  /\ links[dresp.id].owner # dresp.user

\* The save of p's handler `name` is persisted (or rejected) in this step.
Persists(p, name) ==
  /\ pc[p] = "saving"
  /\ op[p].name = name
  /\ pc'[p] = "idle"

\* C24: the save of an owner update leaves clicks, uniqueClicks, the visitor
\* ledger, the event log and dailyStats as they are stored, also when a
\* recordClick on the same link is in flight; and the save of a recordClick
\* leaves the fields of the update as they are stored: expiresAt is unchanged,
\* and status changes only because the stored expiresAt has passed.
C24_UpdateFrame ==
  [][\A p \in Procs :
       /\ Persists(p, "update") => Counters(db') = Counters(db)
       /\ Persists(p, "recordClick") =>
            /\ db'.expiresAt = db.expiresAt
            /\ db'.status # db.status => IsPastExpiry(db, now)]_vars

\* The body carries an expiresAt that is not in the future at time t, or an
\* alias with a character outside letters, digits, hyphen and underscore.
BadBody(body, t) ==
  \/ body.expiresAt # NoExpiry /\ body.expiresAt <= t
  \/ body.customAlias # <<>> /\ \E i \in 1..Len(body.customAlias) :
        body.customAlias[i] \notin {"a", "7", "-", "_"}

\* C25: a create request (with an alias that is not taken) or an update of
\* one's own link whose body carries such an expiresAt or alias is answered
\* with a validation error, which is not the answer given to a persistence
\* or server error, and leaves every link as it was.
C25_ValidationError ==
  [][(/\ dresp' # dresp
      /\ BadBody(dresp'.body, now)
      /\ \/ dresp'.op = "create" /\ ~AliasStored(links, dresp'.body.customAlias)
         \/ dresp'.op = "update" /\ FindOwned(links, dresp'.id, dresp'.user) # NoLink) =>
       (dresp'.status = "validationError" /\ links' = links)]_vars

\* The clicks of the first n DailyStat entries of the link that are dated
\* within the `days` days before t.
RECURSIVE WindowClicks(_, _, _, _)
WindowClicks(link, days, t, n) ==
  IF n = 0 THEN 0
  ELSE WindowClicks(link, days, t, n - 1)
       + (IF link.dailyStats[n].date >= t - days * TicksPerDay
          THEN link.dailyStats[n].clicks ELSE 0)

\* C26: computing a summary changes no field of the link and writes nothing
\* to the store; its totalClicks and uniqueClicks are the link's counters
\* whatever the window, and its recentClicks is the sum of clicks over
\* exactly the DailyStat entries dated within the window.
C26_SummaryPureRead ==
  [][(ret' # ret /\ ret'.op = "summary") =>
       /\ owned' = owned
       /\ db' = db
       /\ ret'.out.totalClicks = owned[ret'.link].clicks
       /\ ret'.out.uniqueClicks = owned[ret'.link].uniqueClicks
       /\ ret'.out.recentClicks =
            WindowClicks(owned[ret'.link], ret'.days, now,
                         Len(owned[ret'.link].dailyStats))]_vars

\* A summary has been computed over a window that holds one entry of the link
\* and leaves another one out.
C26_Witness ==
  /\ ret.op = "summary"
  /\ Len(RecentStats(Summarized, ret.days, now)) = 1
  /\ Len(Summarized.dailyStats) = 2
  /\ ret.out.recentClicks < SumClicks(Summarized.dailyStats)
  /\ ret.out.totalClicks = Summarized.clicks

\* The four leaderboards of a summary and the Maps they are computed from.
Boards(out) ==
  [countries |-> out.topCountries, devices |-> out.topDevices,
   browsers |-> out.topBrowsers, referrers |-> out.topReferrers]

\* The count of a label summed over the Maps `key` of the first n entries.
RECURSIVE LabelCount(_, _, _, _)
LabelCount(stats, key, name, n) ==
  IF n = 0 THEN 0
  ELSE LabelCount(stats, key, name, n - 1) + MapGet(stats[n][key], name)

\* Label a is met before label b when the Maps are read day by day.
SeenBefore(stats, key, a, b) ==
  \E i \in 1..Len(stats) : \E j \in 1..Len(stats[i][key]) :
    /\ stats[i][key][j].name = a
    /\ \A k \in 1..Len(stats) : \A m \in 1..Len(stats[k][key]) :
         stats[k][key][m].name = b => (i < k \/ (i = k /\ j < m))

\* What the claim asks of one leaderboard over the windowed entries.
IsLeaderboard(board, stats, key) ==
  LET total(l) == LabelCount(stats, key, l, Len(stats))
      listed   == {board[i].name : i \in 1..Len(board)}
  IN /\ Len(board) <= LeaderCap
     /\ \A i, j \in 1..Len(board) : i # j => board[i].name # board[j].name
     /\ \A i \in 1..Len(board) : board[i].count = total(board[i].name)
     /\ \A i, j \in 1..Len(board) :
          i < j => /\ board[i].count >= board[j].count
                   /\ board[i].count = board[j].count =>
                        SeenBefore(stats, key, board[i].name, board[j].name)
     /\ \A l \in Labels \ listed :
          total(l) > 0 => (board # <<>> /\ total(l) <= board[Len(board)].count)

\* C27: each leaderboard of a summary has at most the limit of entries, lists
\* a label once with the sum of its counts over the windowed days, is sorted
\* by count descending with equal counts in first-seen order, and leaves out
\* only labels whose sum is at most the smallest count listed.
C27_Leaderboards ==
  (ret.op = "summary") =>
    \A key \in DOMAIN Boards(ret.out) :
      IsLeaderboard(Boards(ret.out)[key],
                    RecentStats(Summarized, ret.days, now), key)

\* A leaderboard has been cut to the limit, leaving out a label seen on the
\* windowed days, and two of its entries have equal counts.
C27_Witness ==
  /\ ret.op = "summary"
  /\ Len(ret.out.topReferrers) = LeaderCap
  /\ \E l \in Labels :
       /\ LabelCount(RecentStats(Summarized, ret.days, now), "referrers", l,
                     Len(RecentStats(Summarized, ret.days, now))) > 0
       /\ \A i \in 1..LeaderCap : ret.out.topReferrers[i].name # l
  /\ ret.out.topReferrers[1].count = ret.out.topReferrers[LeaderCap].count

\* The clicks of the first n links, added up.
RECURSIVE ClicksOfFirst(_, _)
ClicksOfFirst(ls, n) == IF n = 0 THEN 0 ELSE ClicksOfFirst(ls, n - 1) + ls[n].clicks

\* The links listed in topUrls.
Listed(top) == {top[i].link : i \in 1..Len(top)}

\* C28: topUrls of the stats summary lists min(limit, number of links) of the
\* user's links, each once with its clicks, sorted by clicks descending, and
\* no link left out has more clicks than a link listed; totalClicks is the
\* sum of clicks over all the user's links and totalUrls their number.
C28_TopUrls ==
  /\ (ret.op = "stats") =>
       LET top == ret.out.topUrls
       IN /\ Len(top) = (IF Len(owned) < TopCap THEN Len(owned) ELSE TopCap)
          /\ Listed(top) \subseteq 1..Len(owned)
          /\ \A i, j \in 1..Len(top) : i # j => top[i].link # top[j].link
          /\ \A i \in 1..Len(top) : top[i].clicks = owned[top[i].link].clicks
          /\ \A i, j \in 1..Len(top) : i < j => top[i].clicks >= top[j].clicks
          /\ \A k \in (1..Len(owned)) \ Listed(top) : \A i \in Listed(top) :
               owned[k].clicks <= owned[i].clicks
  /\ (ret.op \in {"stats", "legacyStats"}) =>
       /\ ret.out.totalClicks = ClicksOfFirst(owned, Len(owned))
       /\ ret.out.totalUrls = Len(owned)

\* A stats summary over more links than the limit, whose list does not start
\* with the user's first link and leaves out a link with clicks.
C28_Witness ==
  /\ ret.op = "stats"
  /\ Len(owned) > TopCap
  /\ Len(ret.out.topUrls) = TopCap
  /\ ret.out.topUrls[1].link # 1
  /\ ret.out.topUrls[1].clicks > ret.out.topUrls[TopCap].clicks
  /\ \E k \in (1..Len(owned)) \ Listed(ret.out.topUrls) : owned[k].clicks > 0

\* The position at which the route of a handler is registered.
RouteOf(handler) ==
  CHOOSE i \in 1..Len(UrlRoutes) : UrlRoutes[i].handler = handler

\* C29: a GET for /stats/summary is taken by the route of the stats summary,
\* whose handler answers it when the request is authenticated, and a GET
\* without a token for a one-segment path /<code> is answered by the redirect
\* handler; neither is taken by the route GET /:id registered before them.
C29_RouteOrder ==
  /\ (routed.method = "GET" /\ routed.path = <<"stats", "summary">>) =>
       /\ routed.route = RouteOf("statsSummary")
       /\ routed.authed => routed.answer = "statsSummary"
  /\ (routed.method = "GET" /\ Len(routed.path) = 1 /\ ~routed.authed) =>
       /\ routed.route = RouteOf("redirect")
       /\ routed.answer = "redirect"

\* A step of incrementLoginAttempts: the only one that leaves attempts
\* counted.
FailedAttempt == acct' # acct /\ acct'.failed > 0

\* C30: after k failed attempts in a row, with no reset between them and the
\* lock not run out, the account is locked iff k is more than 5; an attempt
\* that locks sets lockUntil 30 minutes ahead, and isAccountLocked holds
\* until then; the first failed attempt after the lock has run out unlocks
\* the account and leaves failedLoginAttempts at 1.
C30_AccountLock ==
  /\ [](~LockExpired(acct, now) => (acct.accountLocked <=> acct.failed > 5))
  /\ [](acct.accountLocked =>
          /\ acct.lockUntil # NoLock
          /\ now < acct.lockUntil => IsAccountLocked(acct, now))
  /\ [][(FailedAttempt /\ acct'.accountLocked) =>
          acct'.lockUntil = now + LockTicks]_vars
  /\ [][(FailedAttempt /\ LockExpired(acct, now)) =>
          (~acct'.accountLocked /\ acct'.failedLoginAttempts = 1)]_vars

\* connectDB has come to its end.
ConnEnded == conn.at \in {"connected", "exited", "returned"}

\* C31: connectDB always terminates; it makes at most 5 connection attempts
\* and none after the first success; every wait lasts the retry interval and
\* lies between a failed attempt and the next one; after the 5th failure in
\* a row the process exits, with no further wait or attempt.
C31_ConnectTerminates ==
  /\ <>ConnEnded
  /\ [](conn.attempts <= 5)
  /\ [](conn.waits = IF conn.at = "waiting" THEN conn.attempts
                     ELSE conn.attempts - 1)
  /\ [](conn.at # "returned")
  /\ [](conn.at = "exited" => conn.retries = 5 /\ conn.attempts = 5)
  /\ [][ConnEnded => UNCHANGED <<conn, now>>]_vars
  /\ [][(conn.at = "waiting" /\ conn'.at # "waiting") =>
          (conn'.at = "connecting" /\ now = conn.since + RetryTicks)]_vars
  /\ [][(conn.at = "connecting" /\ conn'.at = "waiting") =>
          conn.attempts < 5]_vars

\* The process has exited after five failed attempts and the waits between
\* them.
C31_Witness ==
  conn.at = "exited" /\ conn.waits = 4 /\ now >= 4 * RetryTicks

\* C32: after non-overlapping recordClick calls on a fresh link the visitor
\* ledger agrees with the counters: uniqueClicks is the number of ledger
\* entries, no two entries carry the same address, every entry has at least
\* one visit, and the visits add up to clicks.
C32_LedgerConsistent ==
  OnlyRecordClick =>
    /\ db.uniqueClicks = Len(db.uniqueVisitors)
    /\ \A i, j \in 1..Len(db.uniqueVisitors) :
         i # j => db.uniqueVisitors[i].ipAddress # db.uniqueVisitors[j].ipAddress
    /\ \A i \in 1..Len(db.uniqueVisitors) : db.uniqueVisitors[i].totalVisits >= 1
    /\ SumVisits(db.uniqueVisitors) = db.clicks

\* Calls from several addresses, one of them returning: a ledger of more than
\* one entry with a repeated visit.
C32_Witness ==
  /\ OnlyRecordClick
  /\ Len(db.uniqueVisitors) = NumIps
  /\ \E i \in 1..Len(db.uniqueVisitors) : db.uniqueVisitors[i].totalVisits >= 2

RECURSIVE SumDayVisitors(_)
SumDayVisitors(stats) ==
  IF stats = <<>> THEN 0
  ELSE Head(stats).uniqueVisitors + SumDayVisitors(Tail(stats))

\* No DailyStat has been trimmed away: the clicks fell on at most as many days
\* as dailyStats keeps.
NoDayEvicted == Cardinality(HistDays) <= DailyCap

\* C33: in every stored state the daily rollups do not exceed the all-time
\* counters: the clicks of all dailyStats entries add up to at most clicks,
\* their uniqueVisitors to at most uniqueClicks; both sums equal the counters
\* while no day has been evicted and every click came from a non-overlapping
\* recordClick call.
C33_RollupsWithinCounters ==
  /\ SumClicks(db.dailyStats) <= db.clicks
  /\ SumDayVisitors(db.dailyStats) <= db.uniqueClicks
  /\ (OnlyRecordClick /\ NoDayEvicted) =>
       /\ SumClicks(db.dailyStats) = db.clicks
       /\ SumDayVisitors(db.dailyStats) = db.uniqueClicks

\* C34: in every stored state of the link isExpired implies status expired,
\* and every save that leaves the stored link with an expiresAt already past
\* leaves it with status expired: no interleaving of owner updates,
\* recordClick saves and checkExpiration calls stores isExpired together with
\* a status active, inactive or blocked.
C34_ExpiredFlagMeansStatus ==
  /\ [](db.isExpired => db.status = "expired")
  /\ [][(db' # db /\ IsPastExpiry(db', now)) => db'.status = "expired"]_vars

====
